---- MODULE Spec2Model ----
(***************************************************************************)
(* Model of the landslideFormer data-loading adapters:                     *)
(*   - InstanceCOCOCustomNewBaselineDatasetMapper (from_config, __init__,  *)
(*     _get_texts, __call__) and convert_coco_poly_to_mask,                *)
(*   - Register (register_dataset, register_dataset_instances,             *)
(*     plain_register_dataset) over the framework's two catalogs.          *)
(* Python indices are 0-based; TLA+ sequences are 1-based, so list element *)
(* i of the code is element i + 1 of the model.                            *)
(***************************************************************************)
EXTENDS Naturals, Integers, Sequences, FiniteSets, TLC

VARIABLES
    cfg,              \* the configuration from_config reads
    is_train,         \* self.is_train
    num_queries,      \* self.num_queries
    class_names,      \* self.class_names
    things,           \* self.things: a reference to a list object
    lists,            \* the list objects: reference -> contents
    t_pc, t_classes, t_texts,          \* one direct _get_texts call
    m_pc, m_args, m_masks,             \* one convert_coco_poly_to_mask call
    store,            \* the dataset-dict objects: reference -> contents
    orig,             \* the caller's records as they were handed over
    pc,               \* position of each __call__
    arg,              \* the record each __call__ was given (a reference)
    dd,               \* dataset_dict of each __call__ (a reference)
    transforms,       \* the transforms apply_transform_gens recorded
    ret,              \* the record each __call__ returned (a reference)
    DatasetCatalog,   \* name -> loader
    MetadataCatalog,  \* name -> metadata
    loads,            \* the load_coco_json calls made so far
    accesses,         \* the DatasetCatalog.get calls made so far
    registered,       \* name -> the arguments of its registration
    last_args         \* the latest binding of (name, json_file, image_root)

mapperVars == <<cfg, is_train, num_queries, class_names, things, lists>>
textVars == <<t_pc, t_classes, t_texts>>
maskVars == <<m_pc, m_args, m_masks>>
callVars == <<store, orig, pc, arg, dd, transforms, ret>>
registerVars == <<DatasetCatalog, MetadataCatalog, loads, accesses, registered, last_args>>
vars == <<mapperVars, textVars, maskVars, callVars, registerVars>>

(***************************************************************************)
(* Bounds                                                                  *)
(***************************************************************************)
MaxQueries == 2       \* largest NUM_OBJECT_QUERIES
MaxClasses == 2       \* longest thing_classes list
MaxInst == 3          \* most instances handed to one _get_texts call

Max(a, b) == IF a >= b THEN a ELSE b
Min(a, b) == IF a <= b THEN a ELSE b
Range(s) == {s[i] : i \in 1..Len(s)}
SeqsUpTo(S, n) == UNION {[1..k -> S] : k \in 0..n}
None == "None"

(***************************************************************************)
(* Mapper construction                                                     *)
(***************************************************************************)
\* Category names a dataset may declare; nothing makes them distinct.
ClassNameSet == {"__background__", "landslide"}

\* from_config: num_queries = NUM_OBJECT_QUERIES - N_CTX
FromConfig(c) == c.NUM_OBJECT_QUERIES - c.N_CTX

\* __init__: self.things collects the contiguous ids 0..n-1 of the classes.
ThingIds(names) == [i \in 1..Len(names) |-> i - 1]

Configs ==
    {c \in [NUM_OBJECT_QUERIES : 0..MaxQueries, N_CTX : 0..MaxQueries] :
        c.N_CTX <= c.NUM_OBJECT_QUERIES}

\* __init__ with the num_queries from_config computes (a mapper for inference is
\* built by __init__ directly: build_transform_gen supports training only)
Construct(train, names, c) ==
    /\ cfg = c
    /\ is_train = train
    /\ num_queries = FromConfig(c)
    /\ class_names = names
    /\ things = "self.things"
    /\ lists = [r \in {"self.things"} |-> ThingIds(names)]

(***************************************************************************)
(* _get_texts                                                              *)
(***************************************************************************)
DefaultText == "an instance photo"
ClassText(cls_name) == "a photo with a " \o cls_name

\* ["an instance photo"] * n  (an empty list for n <= 0)
Repeat(x, n) == [i \in 1..Max(n, 0) |-> x]

\* line 243-245: a fresh counter per class name, all zero
ZeroCounts(names) == [n \in Range(names) |-> 0]

\* lines 166-168: count the instances per class NAME
RECURSIVE CountClasses(_, _, _)
CountClasses(names, classes, num_class_obj) ==
    IF classes = <<>> THEN num_class_obj
    ELSE LET cls_name == names[Head(classes) + 1]
         IN CountClasses(names, Tail(classes),
                [num_class_obj EXCEPT ![cls_name] = @ + 1])

\* lines 173-177: the inner loop, k iterations left
RECURSIVE FillSlots(_, _, _, _)
FillSlots(texts, num, cls_name, k) ==
    IF k = 0 THEN [texts |-> texts, num |-> num]
    ELSE IF num >= Len(texts) THEN [texts |-> texts, num |-> num]
    ELSE FillSlots([texts EXCEPT ![num + 1] = ClassText(cls_name)],
                   num + 1, cls_name, k - 1)

\* lines 171-177: the outer loop over self.class_names, from index i
RECURSIVE FillClasses(_, _, _, _, _)
FillClasses(texts, num, names, i, num_class_obj) ==
    IF i > Len(names) THEN texts
    ELSE LET cls_name == names[i]
             r == IF num_class_obj[cls_name] > 0
                  THEN FillSlots(texts, num, cls_name, num_class_obj[cls_name])
                  ELSE [texts |-> texts, num |-> num]
         IN FillClasses(r.texts, r.num, names, i + 1, num_class_obj)

\* the loops without the break of lines 174-175
GetTextsNoBreak(names, nq, classes, num_class_obj) ==
    LET counted == CountClasses(names, classes, num_class_obj)
        RECURSIVE Emit(_)
        Emit(i) == IF i > Len(names) THEN <<>>
                   ELSE Repeat(ClassText(names[i]), counted[names[i]]) \o Emit(i + 1)
        cls == Emit(1)
    IN cls \o Repeat(DefaultText, nq - Len(cls))

\* lines 161-179
GetTexts(names, nq, classes, num_class_obj) ==
    LET texts == Repeat(DefaultText, nq)
        counted == CountClasses(names, classes, num_class_obj)
    IN FillClasses(texts, 0, names, 1, counted)

(***************************************************************************)
(* convert_coco_poly_to_mask                                               *)
(* A polygon is given by its raster: the set of pixels <<row, col>> it     *)
(* covers in the height x width image.                                     *)
(***************************************************************************)
MaxPolygons == 2      \* most polygons (over all segmentations) in one call

PixelsOf(height, width) == (0..(height - 1)) \X (0..(width - 1))
PolygonsOf(height, width) == SUBSET PixelsOf(height, width) \ {{}}

\* the k-th pixel (1-based) in the column-major order the RLE codec uses
PixelAt(k, height) == <<(k - 1) % height, (k - 1) \div height>>

\* the raster as a column-major bit vector
Bits(polygon, height, width) ==
    [k \in 1..(height * width) |-> IF PixelAt(k, height) \in polygon THEN 1 ELSE 0]

\* run lengths of a bit vector from position i on; `bit` is the bit whose run is
\* being counted and n the length counted so far (the first run counts zeros)
RECURSIVE Runs(_, _, _, _)
Runs(bits, i, bit, n) ==
    IF i > Len(bits) THEN <<n>>
    ELSE IF bits[i] = bit THEN Runs(bits, i + 1, bit, n + 1)
    ELSE <<n>> \o Runs(bits, i, 1 - bit, 0)

\* line 33: coco_mask.frPyObjects(polygons, height, width): one RLE per polygon
FrPyObjects(polygons, height, width) ==
    [k \in 1..Len(polygons) |->
        [size |-> <<height, width>>,
         counts |-> Runs(Bits(polygons[k], height, width), 1, 0, 0)]]

\* the bit vector of a run-length list, runs alternating from zeros
RECURSIVE Unrun(_, _)
Unrun(counts, bit) ==
    IF counts = <<>> THEN <<>>
    ELSE [i \in 1..Head(counts) |-> bit] \o Unrun(Tail(counts), 1 - bit)

\* line 34: coco_mask.decode(rles): an array of shape (h, w, n), uint8
Decode(rles, height, width) ==
    [shape |-> <<height, width, Len(rles)>>,
     at |-> [px \in PixelsOf(height, width) |->
                [k \in 1..Len(rles) |->
                    Unrun(rles[k].counts, 0)[px[2] * height + px[1] + 1]]]]

\* lines 38-39: mask[..., None] when the array has fewer than 3 dimensions
AddAxis(mask) ==
    IF Len(mask.shape) < 3
    THEN [shape |-> mask.shape \o <<1>>, at |-> mask.at]
    ELSE mask

\* line 45: mask.any(dim=2)
AnyDim2(mask) ==
    [px \in DOMAIN mask.at |-> \E k \in 1..mask.shape[3] : mask.at[px][k] # 0]

\* lines 33-45: the mask of one segmentation
MaskOf(polygons, height, width) ==
    AnyDim2(AddAxis(Decode(FrPyObjects(polygons, height, width), height, width)))

\* masks.append once per polygon instead of once per segmentation
ConvertPerPolygon(segmentations, height, width) ==
    LET RECURSIVE Each(_)
        Each(segs) ==
            IF segs = <<>> THEN <<>>
            ELSE [k \in 1..Len(Head(segs)) |-> MaskOf(<<Head(segs)[k]>>, height, width)]
                 \o Each(Tail(segs))
        masks == Each(segmentations)
    IN [shape |-> <<Len(masks), height, width>>, masks |-> masks]

\* lines 28-53
ConvertCocoPolyToMask(segmentations, height, width) ==
    LET masks == [i \in 1..Len(segmentations) |->
                    MaskOf(segmentations[i], height, width)]
    IN IF masks # <<>>
       THEN [shape |-> <<Len(masks), height, width>>, masks |-> masks]
       ELSE [shape |-> <<0, height, width>>, masks |-> <<>>]

(***************************************************************************)
(* Parts of the state a specification does not use                         *)
(***************************************************************************)
\* Register.CLASS_NAMES
CLASS_NAMES == <<"__background__", "landslide">>

Calls == {1, 2}
Refs == {"record", "copy1", "copy2"}
CopyRef(c) == IF c = 1 THEN "copy1" ELSE "copy2"
NoTransform == [keep |-> {}]
NoInstances == [fields |-> {}, gt_classes |-> <<>>, gt_boxes |-> <<>>,
                gt_masks |-> [shape |-> <<>>, masks |-> <<>>], src |-> <<>>]
NoRecord == [keys |-> {}, annotations |-> <<>>, image |-> {}, padding_mask |-> {},
             instances |-> NoInstances, orig_shape |-> <<>>, task |-> None,
             text |-> <<>>, thing_ids |-> None]

MapperUnused ==
    Construct(TRUE, CLASS_NAMES, [NUM_OBJECT_QUERIES |-> 0, N_CTX |-> 0])
TextsUnused == t_pc = "off" /\ t_classes = <<>> /\ t_texts = <<>>
MaskUnused == m_pc = "off" /\ m_args = <<>> /\ m_masks = <<>>
CallsUnused ==
    /\ store = [r \in Refs |-> NoRecord]
    /\ orig = NoRecord
    /\ pc = [c \in Calls |-> "off"]
    /\ arg = [c \in Calls |-> None]
    /\ dd = [c \in Calls |-> None]
    /\ transforms = [c \in Calls |-> NoTransform]
    /\ ret = [c \in Calls |-> None]
RegisterUnused ==
    /\ DatasetCatalog = <<>>
    /\ MetadataCatalog = <<>>
    /\ loads = <<>>
    /\ accesses = <<>>
    /\ registered = <<>>
    /\ last_args = <<>>

(***************************************************************************)
(* SpecTexts: a mapper built by from_config, and one _get_texts call with  *)
(* the counters __call__ passes (all zero)                                 *)
(***************************************************************************)
ClassNameLists == UNION {[1..k -> ClassNameSet] : k \in 1..MaxClasses}

InitTexts ==
    /\ \E names \in ClassNameLists, c \in Configs : Construct(TRUE, names, c)
    /\ t_pc = "ready"
    /\ t_classes \in SeqsUpTo(0..(Len(class_names) - 1), MaxInst)
    /\ t_texts = <<>>
    /\ MaskUnused /\ CallsUnused /\ RegisterUnused

CallGetTexts ==
    /\ t_pc = "ready"
    /\ t_texts' = GetTexts(class_names, num_queries, t_classes, ZeroCounts(class_names))
    /\ t_pc' = "done"
    /\ UNCHANGED <<t_classes, mapperVars, maskVars, callVars, registerVars>>

NextTexts == CallGetTexts
SpecTexts == InitTexts /\ [][NextTexts]_vars

(***************************************************************************)
(* SpecMask: one convert_coco_poly_to_mask call                            *)
(***************************************************************************)
ImageSizes == {<<1, 2>>, <<2, 2>>}

\* the lists of segmentations (each one or more polygons) with at most n
\* polygons in total
RECURSIVE SegLists(_, _)
SegLists(polygons, n) ==
    {<<>>} \cup
    UNION {{<<seg>> \o rest : seg \in [1..j -> polygons],
                              rest \in SegLists(polygons, n - j)} : j \in 1..n}

InitMask ==
    /\ m_pc = "ready"
    /\ \E size \in ImageSizes :
         \E segs \in SegLists(PolygonsOf(size[1], size[2]), MaxPolygons) :
            m_args = [segmentations |-> segs, height |-> size[1], width |-> size[2]]
    /\ m_masks = <<>>
    /\ MapperUnused /\ TextsUnused /\ CallsUnused /\ RegisterUnused

CallConvert ==
    /\ m_pc = "ready"
    /\ m_masks' = ConvertCocoPolyToMask(m_args.segmentations, m_args.height, m_args.width)
    /\ m_pc' = "done"
    /\ UNCHANGED <<m_args, mapperVars, textVars, callVars, registerVars>>

NextMask == CallConvert
SpecMask == InitMask /\ [][NextMask]_vars

(***************************************************************************)
(* __call__                                                                *)
(* The image is IMAGE_SHAPE before and after the transforms.  A transform  *)
(* list is given by the set of pixels it keeps (the rest is cropped away   *)
(* and padded); polygons are rasters, as above.                            *)
(***************************************************************************)
MaxAnnos == 2         \* most annotations of one record

IMAGE_SHAPE == <<1, 2>>
ImagePixels == PixelsOf(IMAGE_SHAPE[1], IMAGE_SHAPE[2])
Transforms == [keep : SUBSET ImagePixels]

\* the segmentations of the records: a one-part and a two-part object
RecordSegmentations == {<<{<<0, 0>>}>>, <<{<<0, 0>>}, {<<0, 1>>}>>}

Annotations(keypoints) ==
    [category_id : 0..(Len(CLASS_NAMES) - 1), iscrowd : {0, 1},
     keypoints : {keypoints}, segmentation : RecordSegmentations]

LoaderKeys == {"file_name", "height", "width", "image_id"}

\* the records the loader hands to the mapper: with or without annotations,
\* the annotations of a dataset all with or all without keypoints
InputRecords ==
    {[NoRecord EXCEPT !.keys = LoaderKeys]} \cup
    {[NoRecord EXCEPT !.keys = LoaderKeys \cup {"annotations"}, !.annotations = a] :
        a \in SeqsUpTo(Annotations(TRUE), MaxAnnos) \cup SeqsUpTo(Annotations(FALSE), MaxAnnos)}

\* line 189: copy.deepcopy(dataset_dict) is a new object
SameObject(c, r) == r
DeepCopy(c, r) == CopyRef(c)

\* line 211: if not self.is_train
NeverInference(train) == FALSE
IsInference(train) == ~train

\* lines 219-220: anno.pop("keypoints", None) for every annotation
PopKeypoints(annotations) ==
    [i \in 1..Len(annotations) |-> [annotations[i] EXCEPT !.keypoints = FALSE]]

\* lines 226-227: the (0-based + 1) positions of the annotations kept
NonCrowdPositions(annotations) ==
    SelectSeq([i \in 1..Len(annotations) |-> i],
              LAMBDA i : annotations[i].iscrowd = 0)

\* line 225: utils.transform_instance_annotations: the polygons under the
\* transforms, those cropped away entirely dropped
ApplyPolygons(T, polygons) ==
    SelectSeq([k \in 1..Len(polygons) |-> polygons[k] \cap T.keep],
              LAMBDA poly : poly # {})
TransformInstanceAnnotations(obj, T) ==
    [obj EXCEPT !.segmentation = ApplyPolygons(T, @)]

\* line 230: utils.annotations_to_instances: gt_masks only if there are annotations
AnnotationsToInstances(as, positions) ==
    [fields |-> {"gt_boxes", "gt_classes"} \cup (IF Len(as) > 0 THEN {"gt_masks"} ELSE {}),
     gt_classes |-> [i \in 1..Len(as) |-> as[i].category_id],
     gt_boxes |-> [i \in 1..Len(as) |-> <<0, 0, 0, 0>>],
     gt_masks |-> [i \in 1..Len(as) |-> as[i].segmentation],
     src |-> positions]

\* line 232: gt_masks.get_bounding_boxes(): <<x0, y0, x1, y1>> around the polygons
BoxOf(polygons) ==
    LET px == UNION Range(polygons)
        rows == {q[1] : q \in px}
        cols == {q[2] : q \in px}
        Least(S) == CHOOSE x \in S : \A y \in S : x <= y
        Most(S) == CHOOSE x \in S : \A y \in S : x >= y
    IN IF px = {} THEN <<0, 0, 0, 0>>
       ELSE <<Least(cols), Least(rows), Most(cols) + 1, Most(rows) + 1>>
GetBoundingBoxes(gt_masks) == [i \in 1..Len(gt_masks) |-> BoxOf(gt_masks[i])]

\* line 234: utils.filter_empty_instances: a non-empty box and a non-empty mask
Select(s, keep) == [i \in 1..Len(keep) |-> s[keep[i]]]
KeepAllInstances(I) == I
FilterEmptyInstances(I) ==
    LET keep == SelectSeq([i \in 1..Len(I.gt_classes) |-> i],
                    LAMBDA i : /\ I.gt_boxes[i][3] > I.gt_boxes[i][1]
                               /\ I.gt_boxes[i][4] > I.gt_boxes[i][2]
                               /\ I.gt_masks[i] # <<>>)
    IN [I EXCEPT !.gt_classes = Select(@, keep), !.gt_boxes = Select(@, keep),
                 !.gt_masks = Select(@, keep), !.src = Select(@, keep)]

\* lines 224-241: the instances of the annotations, or the failure of line 232
\* when instances has no gt_masks
BuildInstances(annotations, T) ==
    LET positions == NonCrowdPositions(annotations)
        as == [i \in 1..Len(positions) |->
                  TransformInstanceAnnotations(annotations[positions[i]], T)]
        I0 == AnnotationsToInstances(as, positions)
    IN IF "gt_masks" \notin I0.fields
       THEN [raised |-> TRUE, instances |-> NoInstances]
       ELSE LET I1 == [I0 EXCEPT !.gt_boxes = GetBoundingBoxes(I0.gt_masks)]
                I2 == FilterEmptyInstances(I1)
                I3 == IF "gt_masks" \in I2.fields
                      THEN [I2 EXCEPT !.gt_masks =
                               ConvertCocoPolyToMask(@, IMAGE_SHAPE[1], IMAGE_SHAPE[2])]
                      ELSE I2
            IN [raised |-> FALSE, instances |-> I3]

\* lines 250-254
TaskText == "The task is instance"
SetFieldsNoTask(rec, I, text, thing_ids) ==
    [rec EXCEPT !.keys = @ \cup {"instances", "orig_shape", "text", "thing_ids"},
                !.instances = I, !.orig_shape = IMAGE_SHAPE,
                !.text = text, !.thing_ids = thing_ids]
SetFields(rec, I, text, thing_ids) ==
    [rec EXCEPT !.keys = @ \cup {"instances", "orig_shape", "task", "text", "thing_ids"},
                !.instances = I, !.orig_shape = IMAGE_SHAPE, !.task = TaskText,
                !.text = text, !.thing_ids = thing_ids]

\* dataset_dict.pop("annotations", None)
PopAnnotations(rec) ==
    [rec EXCEPT !.keys = @ \ {"annotations"}, !.annotations = <<>>]

\* lines 189-191: the copy is made, the image read and its size checked
Begin(c) ==
    /\ pc[c] = "idle"
    /\ arg' = [arg EXCEPT ![c] = "record"]
    /\ dd' = [dd EXCEPT ![c] = DeepCopy(c, "record")]
    /\ store' = [store EXCEPT ![CopyRef(c)] = store["record"]]
    /\ \/ pc' = [pc EXCEPT ![c] = "read"]
       \/ pc' = [pc EXCEPT ![c] = "failed"]     \* read_image or check_image_size raises
    /\ UNCHANGED <<orig, transforms, ret, mapperVars, textVars, maskVars, registerVars>>

\* lines 195-208: the transforms are drawn and applied; image and padding mask set
ApplyTransformGens(c) ==
    /\ pc[c] = "read"
    /\ \E T \in Transforms :
         /\ transforms' = [transforms EXCEPT ![c] = T]
         /\ store' = [store EXCEPT ![dd[c]] =
                [@ EXCEPT !.keys = @ \cup {"image", "padding_mask"},
                          !.image = T.keep,
                          !.padding_mask = ImagePixels \ T.keep]]
    /\ pc' = [pc EXCEPT ![c] = "transformed"]
    /\ UNCHANGED <<orig, arg, dd, ret, mapperVars, textVars, maskVars, registerVars>>

\* lines 211-215
ReturnInference(c) ==
    /\ pc[c] = "transformed"
    /\ IsInference(is_train)
    /\ store' = [store EXCEPT ![dd[c]] = PopAnnotations(@)]
    /\ ret' = [ret EXCEPT ![c] = dd[c]]
    /\ pc' = [pc EXCEPT ![c] = "done"]
    /\ UNCHANGED <<orig, arg, dd, transforms, mapperVars, textVars, maskVars, registerVars>>

\* lines 217-256 for a record with annotations
MapAnnotations(c) ==
    /\ pc[c] = "transformed"
    /\ ~IsInference(is_train)
    /\ "annotations" \in store[dd[c]].keys
    /\ LET rec == store[dd[c]]
           popped == PopAnnotations(rec)
           built == BuildInstances(PopKeypoints(rec.annotations), transforms[c])
           text == GetTexts(class_names, num_queries, built.instances.gt_classes,
                            ZeroCounts(class_names))
       IN IF built.raised
          THEN /\ store' = [store EXCEPT ![dd[c]] = popped]
               /\ pc' = [pc EXCEPT ![c] = "failed"]
               /\ ret' = ret
          ELSE /\ store' = [store EXCEPT ![dd[c]] =
                                SetFields(popped, built.instances, text, things)]
               /\ pc' = [pc EXCEPT ![c] = "done"]
               /\ ret' = [ret EXCEPT ![c] = dd[c]]
    /\ UNCHANGED <<orig, arg, dd, transforms, mapperVars, textVars, maskVars, registerVars>>

\* lines 217 and 256 for a record without annotations
ReturnUnannotated(c) ==
    /\ pc[c] = "transformed"
    /\ ~IsInference(is_train)
    /\ "annotations" \notin store[dd[c]].keys
    /\ ret' = [ret EXCEPT ![c] = dd[c]]
    /\ pc' = [pc EXCEPT ![c] = "done"]
    /\ UNCHANGED <<store, orig, arg, dd, transforms, mapperVars, textVars, maskVars, registerVars>>

\* the caller appends an id to the thing_ids list of a record it was returned
MutateThingIds(c) ==
    /\ pc[c] = "done"
    /\ "thing_ids" \in store[ret[c]].keys
    /\ Len(lists[store[ret[c]].thing_ids]) <= Len(class_names)
    /\ lists' = [lists EXCEPT ![store[ret[c]].thing_ids] = Append(@, Len(@))]
    /\ UNCHANGED <<cfg, is_train, num_queries, class_names, things,
                   callVars, textVars, maskVars, registerVars>>

InitCalls(active) ==
    /\ \E train \in BOOLEAN, c \in Configs : Construct(train, CLASS_NAMES, c)
    /\ orig \in InputRecords
    /\ store = [r \in Refs |-> IF r = "record" THEN orig ELSE NoRecord]
    /\ pc = [c \in Calls |-> IF c \in active THEN "idle" ELSE "off"]
    /\ arg = [c \in Calls |-> None]
    /\ dd = [c \in Calls |-> None]
    /\ transforms = [c \in Calls |-> NoTransform]
    /\ ret = [c \in Calls |-> None]
    /\ TextsUnused /\ MaskUnused /\ RegisterUnused

NextCalls ==
    \E c \in Calls :
        \/ Begin(c)
        \/ ApplyTransformGens(c)
        \/ ReturnInference(c)
        \/ MapAnnotations(c)
        \/ ReturnUnannotated(c)
        \/ MutateThingIds(c)

\* one call on a record
InitMapper == InitCalls({1})
SpecMapper == InitMapper /\ [][NextCalls]_vars

\* two calls on the same mapper, in any interleaving
InitShared == InitCalls(Calls)
SpecShared == InitShared /\ [][NextCalls]_vars

(***************************************************************************)
(* Register                                                                *)
(***************************************************************************)
MaxLoads == 2         \* most DatasetCatalog.get calls in one run

\* os.path.join(a, b) for a ending in "/" and b relative
PathJoin(a, b) == a \o b

\* Register.ROOT and the attributes __init__ sets
ROOT == "./datasets/coco/"
Self ==
    LET ANN_ROOT == "./datasets/coco/annotations/"
    IN [TRAIN_PATH |-> PathJoin(ROOT, "CAS_img_jpg"),
        VAL_PATH |-> PathJoin(ROOT, "CAS_img_jpg"),
        TRAIN_JSON |-> PathJoin(ANN_ROOT, "instances_train2017.json"),
        VAL_JSON |-> PathJoin(ANN_ROOT, "instances_val2017.json")]

\* self.PREDEFINED_SPLITS_DATASET, in insertion order
PREDEFINED_SPLITS_DATASET ==
    << [key |-> "coco_landslide_train", image_root |-> Self.TRAIN_PATH, json_file |-> Self.TRAIN_JSON],
       [key |-> "coco_landslide_val", image_root |-> Self.VAL_PATH, json_file |-> Self.VAL_JSON] >>

\* the names, files and directories register_dataset_instances is called with
CallerNames == {"coco_landslide_val", "my_dataset"}
CallerJsonFiles == {Self.VAL_JSON, "tool_data/val_coco_format.json"}
CallerImageRoots == {Self.VAL_PATH, "tool_data/val"}

DatasetNames ==
    CallerNames \cup {"coco_landslide_train", "coco_Jiuzhai_train", "coco_Jiuzhai_val"}

NoArgs == [name |-> None, json_file |-> None, image_root |-> None]
NoLoader == [env |-> "none", name |-> None, json_file |-> None, image_root |-> None]
NoMetadata == [keys |-> {}, json_file |-> None, image_root |-> None,
               evaluator_type |-> None, thing_classes |-> <<>>]

\* line 46: the lambda closes over the parameters of its own call of
\* register_dataset_instances
LoaderOfLatest(name, json_file, image_root) ==
    [env |-> "latest", name |-> None, json_file |-> None, image_root |-> None]
LoaderOf(name, json_file, image_root) ==
    [env |-> "args", name |-> name, json_file |-> json_file, image_root |-> image_root]

\* lines 52 and 62: the lambda closes over self and reads its attributes when called
LoaderOfSelf(json_attr, path_attr) ==
    [env |-> "self", name |-> None, json_file |-> json_attr, image_root |-> path_attr]

\* calling a loader: the load_coco_json call it makes
Invoke(loader, latest) ==
    CASE loader.env = "args" ->
            [json_file |-> loader.json_file, image_root |-> loader.image_root,
             name |-> loader.name]
      [] loader.env = "self" ->
            [json_file |-> Self[loader.json_file], image_root |-> Self[loader.image_root],
             name |-> None]
      [] OTHER ->
            [json_file |-> latest.json_file, image_root |-> latest.image_root,
             name |-> latest.name]

\* what DatasetCatalog.register does with the loader: it stores it, and calls nothing
CalledAtOnce(loader, latest) == <<Invoke(loader, latest)>>
CalledAtRegistration(loader, latest) == <<>>

\* Metadata.set(**kwargs): every key is set in turn; a key already set to another
\* value raises
RECURSIVE MetadataSet(_, _)
MetadataSet(meta, kwargs) ==
    IF kwargs = <<>> THEN [raised |-> FALSE, meta |-> meta]
    ELSE LET kv == Head(kwargs)
         IN IF kv.key \in meta.keys /\ meta[kv.key] # kv.val
            THEN [raised |-> TRUE, meta |-> meta]
            ELSE MetadataSet([meta EXCEPT !.keys = @ \cup {kv.key}, ![kv.key] = kv.val],
                             Tail(kwargs))

\* DatasetCatalog.register(name, loader) followed by MetadataCatalog.get(name).set(...)
\* on the catalogs S; `args` is what the registration is remembered by
RegisterOne(S, name, loader, kwargs, args) ==
    IF S.raised \/ S.DatasetCatalog[name].env # "none"
    THEN [S EXCEPT !.raised = TRUE]
    ELSE LET set == MetadataSet(S.MetadataCatalog[name], kwargs)
         IN [raised |-> set.raised,
             DatasetCatalog |-> [S.DatasetCatalog EXCEPT ![name] = loader],
             MetadataCatalog |-> [S.MetadataCatalog EXCEPT ![name] = set.meta],
             loads |-> S.loads \o CalledAtRegistration(loader, S.last_args),
             registered |-> IF set.raised THEN S.registered
                            ELSE [S.registered EXCEPT ![name] = args],
             last_args |-> S.last_args]

\* lines 40-47
RegisterInstances(S, name, json_file, image_root) ==
    RegisterOne([S EXCEPT !.last_args =
                    [name |-> name, json_file |-> json_file, image_root |-> image_root]],
                name, LoaderOf(name, json_file, image_root),
                << [key |-> "json_file", val |-> json_file],
                   [key |-> "image_root", val |-> image_root],
                   [key |-> "evaluator_type", val |-> "coco"] >>,
                [name |-> name, json_file |-> json_file, image_root |-> image_root])

Catalogs ==
    [raised |-> FALSE, DatasetCatalog |-> DatasetCatalog, MetadataCatalog |-> MetadataCatalog,
     loads |-> loads, registered |-> registered, last_args |-> last_args]

SetCatalogs(S) ==
    /\ DatasetCatalog' = S.DatasetCatalog
    /\ MetadataCatalog' = S.MetadataCatalog
    /\ loads' = S.loads
    /\ registered' = S.registered
    /\ last_args' = S.last_args
    /\ UNCHANGED <<accesses, mapperVars, textVars, maskVars, callVars>>

\* Register.register_dataset_instances(name, json_file, image_root)
RegisterDatasetInstances ==
    \E name \in CallerNames, json_file \in CallerJsonFiles, image_root \in CallerImageRoots :
        SetCatalogs(RegisterInstances(Catalogs, name, json_file, image_root))

\* lines 36-37: the loop, which the first raise ends
RECURSIVE RegisterSplits(_, _)
RegisterSplits(S, splits) ==
    IF splits = <<>> \/ S.raised THEN S
    ELSE RegisterSplits(
            RegisterInstances(S, Head(splits).key, Head(splits).json_file,
                              Head(splits).image_root),
            Tail(splits))

\* Register().register_dataset()
RegisterDataset == SetCatalogs(RegisterSplits(Catalogs, PREDEFINED_SPLITS_DATASET))

\* lines 52-58 and 62-68
PlainRegister(S, name, json_attr, path_attr) ==
    RegisterOne(S, name, LoaderOfSelf(json_attr, path_attr),
                << [key |-> "thing_classes", val |-> CLASS_NAMES],
                   [key |-> "evaluator_type", val |-> "coco"],
                   [key |-> "json_file", val |-> Self[json_attr]],
                   [key |-> "image_root", val |-> Self[path_attr]] >>,
                [name |-> None, json_file |-> Self[json_attr], image_root |-> Self[path_attr]])

\* Register().plain_register_dataset()
PlainRegisterDataset ==
    SetCatalogs(
        LET S1 == PlainRegister(Catalogs, "coco_Jiuzhai_train", "TRAIN_JSON", "TRAIN_PATH")
        IN IF S1.raised THEN S1
           ELSE PlainRegister(S1, "coco_Jiuzhai_val", "VAL_JSON", "VAL_PATH"))

\* DatasetCatalog.get(name): the loader registered under name is called
Get(name) ==
    /\ DatasetCatalog[name].env # "none"
    /\ Len(accesses) < MaxLoads
    /\ accesses' = Append(accesses, name)
    /\ loads' = Append(loads, Invoke(DatasetCatalog[name], last_args))
    /\ UNCHANGED <<DatasetCatalog, MetadataCatalog, registered, last_args,
                   mapperVars, textVars, maskVars, callVars>>

InitRegister ==
    /\ DatasetCatalog = [n \in DatasetNames |-> NoLoader]
    /\ MetadataCatalog = [n \in DatasetNames |-> NoMetadata]
    /\ loads = <<>>
    /\ accesses = <<>>
    /\ registered = [n \in DatasetNames |-> NoArgs]
    /\ last_args = NoArgs
    /\ MapperUnused /\ TextsUnused /\ MaskUnused /\ CallsUnused

NextRegister ==
    \/ RegisterDatasetInstances
    \/ RegisterDataset
    \/ PlainRegisterDataset
    \/ \E name \in DatasetNames : Get(name)

SpecRegister == InitRegister /\ [][NextRegister]_vars

(***************************************************************************)
(* Properties                                                              *)
(***************************************************************************)
Count(s, x) == Cardinality({i \in 1..Len(s) : s[i] = x})
Returned(c) == store[ret[c]]

\* C1: the prompt list _get_texts returns has exactly NUM_OBJECT_QUERIES - N_CTX
\* entries, whatever the number of instances (none, fewer than the budget, more).
C1_TextLength ==
    t_pc = "done" => Len(t_texts) = cfg.NUM_OBJECT_QUERIES - cfg.N_CTX

C1_Witness ==
    /\ t_pc = "done"
    /\ num_queries > 0
    /\ Len(t_classes) > num_queries
    /\ Len(t_texts) = num_queries

\* the class prompts in class-declaration order, one per instance of the class
RECURSIVE ClassPrompts(_, _, _)
ClassPrompts(names, classes, i) ==
    IF i > Len(names) THEN <<>>
    ELSE Repeat(ClassText(names[i]), Count(classes, i - 1))
         \o ClassPrompts(names, classes, i + 1)

\* C2: with the counters at zero the prompts are the class prompts in
\* class-declaration order, one per instance occurrence of the class, cut to
\* num_queries, then "an instance photo" in every remaining slot; exactly
\* min(K, num_queries) slots are class prompts for K instances.
C2_PromptLayout ==
    t_pc = "done" =>
        LET prompts == ClassPrompts(class_names, t_classes, 1)
        IN /\ t_texts = [k \in 1..num_queries |->
                            IF k <= Len(prompts) THEN prompts[k] ELSE DefaultText]
           /\ Cardinality({k \in 1..Len(t_texts) : t_texts[k] # DefaultText})
                = Min(Len(t_classes), num_queries)

\* C3: a call in inference mode returns the keys of its input without
\* 'annotations', plus 'image' and 'padding_mask': no 'instances', 'text' or 'task'.
C3_InferenceOutput ==
    \A c \in Calls :
        (pc[c] = "done" /\ ~is_train) =>
            /\ Returned(c).keys \cap {"instances", "text", "task", "annotations"} = {}
            /\ Returned(c).keys = (orig.keys \ {"annotations"}) \cup {"image", "padding_mask"}

C3_Witness ==
    /\ pc[1] = "done"
    /\ ~is_train
    /\ "annotations" \in orig.keys
    /\ Len(orig.annotations) > 0

TrainingFields == {"instances", "orig_shape", "task", "text", "thing_ids"}

\* C4 as stated: every training-mode call that returns has added all of 'image',
\* 'padding_mask', 'instances', 'orig_shape', 'task', 'text' and 'thing_ids' and
\* removed 'annotations', also for a record with no 'annotations' key.
C4_AllFieldsAlways ==
    \A c \in Calls :
        (pc[c] = "done" /\ is_train) =>
            /\ {"image", "padding_mask"} \cup TrainingFields \subseteq Returned(c).keys
            /\ Returned(c).task = TaskText
            /\ "annotations" \notin Returned(c).keys

\* C4 amended: a training-mode call that returns has added all the fields and
\* removed 'annotations' when its record has an 'annotations' key; for a record
\* without one it has added 'image' and 'padding_mask' only.
C4_FieldsWhenAnnotated ==
    \A c \in Calls :
        (pc[c] = "done" /\ is_train) =>
            /\ {"image", "padding_mask"} \subseteq Returned(c).keys
            /\ "annotations" \notin Returned(c).keys
            /\ IF "annotations" \in orig.keys
               THEN /\ TrainingFields \subseteq Returned(c).keys
                    /\ Returned(c).task = TaskText
               ELSE TrainingFields \cap Returned(c).keys = {}

C4_Witness ==
    /\ pc[1] = "done"
    /\ is_train
    /\ "annotations" \in orig.keys
    /\ Len(Returned(1).instances.gt_classes) > 0
    /\ Returned(1).task = TaskText

\* the list objects a returned record reaches
ListsOf(c) ==
    IF pc[c] = "done" /\ "thing_ids" \in Returned(c).keys
    THEN {Returned(c).thing_ids} ELSE {}

\* C5: no mutable object is reachable from two returned records, or from a
\* returned record and the mapper.
C5_NoSharedMutable ==
    /\ \A c \in Calls : things \notin ListsOf(c)
    /\ \A c, d \in Calls : c # d => ListsOf(c) \cap ListsOf(d) = {}

\* C6: the record handed to the mapper is as it was, in both modes and after a
\* call that failed part-way.
C6_InputUnchanged == store["record"] = orig

C6_Witness ==
    /\ pc[1] = "failed"
    /\ "image" \in store[dd[1]].keys
    /\ "annotations" \notin store[dd[1]].keys
    /\ "annotations" \in orig.keys
    /\ store["record"] = orig

\* C7: the instances a training-mode call returns are exactly the non-crowd
\* annotations whose polygons survive the transforms, in order; each has a
\* non-empty mask and the class of its annotation; the prompts are built from the
\* classes of these instances.
C7_RetainedInstances ==
    \A c \in Calls :
        (pc[c] = "done" /\ is_train /\ "annotations" \in orig.keys) =>
            LET I == Returned(c).instances
                as == orig.annotations
                n == Len(I.gt_classes)
            IN /\ Len(I.src) = n /\ Len(I.gt_masks.masks) = n
               /\ \A i \in 1..n :
                    /\ as[I.src[i]].iscrowd = 0
                    /\ \E px \in ImagePixels : I.gt_masks.masks[i][px]
                    /\ I.gt_classes[i] = as[I.src[i]].category_id
               /\ \A i, j \in 1..n : i < j => I.src[i] < I.src[j]
               /\ Range(I.src) =
                    {j \in 1..Len(as) :
                        /\ as[j].iscrowd = 0
                        /\ ApplyPolygons(transforms[c], as[j].segmentation) # <<>>}
               /\ n <= Cardinality({j \in 1..Len(as) : as[j].iscrowd = 0})
               /\ Returned(c).text = GetTexts(class_names, num_queries, I.gt_classes,
                                              ZeroCounts(class_names))
               /\ Cardinality({k \in 1..Len(Returned(c).text) :
                                  Returned(c).text[k] # DefaultText})
                    = Min(n, num_queries)

C7_Witness ==
    /\ pc[1] = "done"
    /\ is_train
    /\ Len(orig.annotations) = 2
    /\ orig.annotations[1].iscrowd = 0
    /\ orig.annotations[2].iscrowd = 0
    /\ Returned(1).instances.src = <<2>>
    /\ num_queries > 0

\* C8: every load a registered name's loader makes uses the json_file, image_root
\* and name of that name's own registration, whenever it is called, and the
\* name's metadata holds the same paths.
C8_IndependentEntries ==
    /\ Len(loads) = Len(accesses)
    /\ \A i \in 1..Len(loads) : loads[i] = registered[accesses[i]]
    /\ \A n \in DatasetNames :
         DatasetCatalog[n].env # "none" =>
            /\ Invoke(DatasetCatalog[n], last_args) = registered[n]
            /\ MetadataCatalog[n].json_file = registered[n].json_file
            /\ MetadataCatalog[n].image_root = registered[n].image_root

C8_Witness ==
    /\ Len(loads) = 2
    /\ accesses[1] # accesses[2]
    /\ loads[1].json_file = loads[2].json_file
    /\ loads[1].image_root # loads[2].image_root
    /\ loads[1].name = accesses[1] /\ loads[2].name = accesses[2]
    /\ last_args.name \notin {accesses[1], accesses[2]}

\* C9: a registration loads nothing (the loader is called once per later access
\* and never otherwise), and every registered name has a loader in the dataset
\* catalog and evaluator_type 'coco', json_file and image_root in its metadata.
C9_LazyRegistration ==
    /\ Len(loads) = Len(accesses)
    /\ \A n \in DatasetNames :
         registered[n] # NoArgs =>
            /\ DatasetCatalog[n].env # "none"
            /\ {"evaluator_type", "json_file", "image_root"} \subseteq MetadataCatalog[n].keys
            /\ MetadataCatalog[n].evaluator_type = "coco"
            /\ MetadataCatalog[n].json_file = registered[n].json_file
            /\ MetadataCatalog[n].image_root = registered[n].image_root
    /\ \A n \in DatasetNames : DatasetCatalog[n].env # "none" => registered[n] # NoArgs

C9_Witness ==
    /\ loads = <<>>
    /\ registered["my_dataset"] # NoArgs
    /\ registered["coco_landslide_train"] # NoArgs
    /\ registered["coco_Jiuzhai_val"] # NoArgs

\* C10: the result has one mask per segmentation, of the size of the image, mask i
\* true exactly on the pixels some polygon of segmentation i covers; no
\* segmentations give the empty stack of shape (0, height, width).
C10_OneMaskPerInstance ==
    m_pc = "done" =>
        LET segs == m_args.segmentations
        IN /\ m_masks.shape = <<Len(segs), m_args.height, m_args.width>>
           /\ Len(m_masks.masks) = Len(segs)
           /\ \A i \in 1..Len(segs) :
                /\ DOMAIN m_masks.masks[i] = PixelsOf(m_args.height, m_args.width)
                /\ \A px \in PixelsOf(m_args.height, m_args.width) :
                      m_masks.masks[i][px] <=> (\E k \in 1..Len(segs[i]) : px \in segs[i][k])

C10_Witness ==
    /\ m_pc = "done"
    /\ m_args.height = 2 /\ m_args.width = 2
    /\ Len(m_args.segmentations) = 1
    /\ Len(m_args.segmentations[1]) = 2
    /\ m_args.segmentations[1][1] \cap m_args.segmentations[1][2] = {}
    /\ m_masks.shape = <<1, 2, 2>>
    /\ \E px \in PixelsOf(2, 2) : ~m_masks.masks[1][px]

====
